---------------------------- MODULE Spec2Model ----------------------------
(***************************************************************************)
(* POPLU CITY: the simulation state held by App (src/App.tsx) as a state   *)
(* machine.  The React state (grid, stats, newsFeed, gameStarted), the     *)
(* refs the timers and the click handler read (gridRef, statsRef,          *)
(* tickCounter), the economic tick, the tile click handler and the news    *)
(* call are modelled from the source.                                      *)
(*                                                                         *)
(* The grid is the program's 25 x 25 grid.  The player's clicks are taken  *)
(* from a window of five tiles of it (plus coordinates outside the grid);  *)
(* every tile outside the window keeps the value createInitialGrid gave    *)
(* it, so only the window's tiles are kept in the state.                   *)
(***************************************************************************)
EXTENDS Integers, Sequences, FiniteSets, TLC

(***************************************************************************)
(* Program constants (src/unnamed/part_000 is the constants module that    *)
(* App.tsx imports as './constants').                                      *)
(***************************************************************************)
GRID_SIZE == 25

INITIAL_MONEY == 50000

LAND_COST == 500

ownedRadius == 2

basePrice == 5000

demolishCost == 5

center == GRID_SIZE \div 2

BuildingType ==
  {"None", "Road", "Residential", "Commercial", "Industrial", "Park",
   "Rail", "TrainStation", "Bridge", "Land"}

\* BUILDINGS[t].cost / .popGen / .incomeGen
BUILDINGS ==
  [t \in BuildingType |->
     CASE t = "None"         -> [cost |-> 0,         popGen |-> 0,  incomeGen |-> 0]
       [] t = "Road"         -> [cost |-> 10,        popGen |-> 0,  incomeGen |-> 0]
       [] t = "Residential"  -> [cost |-> 100,       popGen |-> 5,  incomeGen |-> 0]
       [] t = "Commercial"   -> [cost |-> 200,       popGen |-> 0,  incomeGen |-> 15]
       [] t = "Industrial"   -> [cost |-> 400,       popGen |-> 0,  incomeGen |-> 40]
       [] t = "Park"         -> [cost |-> 50,        popGen |-> 1,  incomeGen |-> 0]
       [] t = "Rail"         -> [cost |-> 150,       popGen |-> 0,  incomeGen |-> 0]
       [] t = "TrainStation" -> [cost |-> 5000,      popGen |-> 10, incomeGen |-> 200]
       [] t = "Bridge"       -> [cost |-> 1000,      popGen |-> 0,  incomeGen |-> 0]
       [] t = "Land"         -> [cost |-> LAND_COST, popGen |-> 0,  incomeGen |-> 0]]

(***************************************************************************)
(* Bounds of the model.                                                    *)
(***************************************************************************)
\* clicks handled in one behaviour
MaxClicks == 2

\* economic ticks fired in one behaviour
MaxTicks == 4

\* firings of the 200 ms timer in one behaviour
MaxFirings == 1000

\* Road and Bridge tiles of the largest road graph
MaxRoads == 32

\* the largest population
MaxPopulation == 604

\* the train's progress, in twentieths of a tile, up to which frames are followed
MaxProgress == 130


(***************************************************************************)
(* The window of tiles the player clicks, as <<x, y>> of the 25 x 25 grid: *)
(*   <<11,10>> owned water          <<14,10>>, <<13,10>> owned dry land    *)
(*   <<14, 9>> unowned dry land next to <<14,10>>                          *)
(*   <<15, 9>> unowned dry land next to <<14,9>>, diagonal to <<14,10>>    *)
(*   <<11, 9>> unowned water next to <<11,10>>                             *)
(***************************************************************************)
Window == {<<11, 10>>, <<14, 10>>, <<13, 10>>, <<14, 9>>, <<15, 9>>, <<11, 9>>}

\* coordinates a click may carry: the window and two places off the grid
OffGrid == {<<0 - 1, 10>>, <<14, GRID_SIZE>>}

ClickCoords == Window \cup OffGrid

\* Math.floor(Math.random() * 5000) of one grid generation: every tile of a
\* behaviour draws the same value, one of these
RandomVariances == {198}

VARIABLES
  gameStarted,   \* useState(false)
  grid,          \* useState(createInitialGrid): the window's tiles
  stats,         \* useState({money, population, day})
  newsFeed,      \* useState([]): NewsItem sequence, newest last
  gridRef,       \* useRef(grid)
  statsRef,      \* useRef(stats)
  tickCounter,   \* useRef(0)
  pendingNews,   \* the tick whose generateNewsEvent call awaits its result, 0 when none does
  clicks,        \* handleTileClick calls so far (bounds the behaviour)
  timeOfDay,     \* useState(0): the day/night cycle, in units of 0.001
  firings,       \* dayInterval callbacks so far (bounds the behaviour)
  unhandledRejection, \* a fetchNews promise was rejected; nothing awaits or catches it
  carsState,     \* TrafficSystem carsState: one record per car, <<>> before seeding
  trainProgress, \* TrainSystem progressRef, in units of 1 / ProgressUnit tile
  trainThrew,    \* a TrainSystem frame callback raised a TypeError
  rendered       \* the agents IsoMap drew last: cars, pedestrians, trains

\* the state of the city
cityVars == <<gameStarted, grid, stats, newsFeed, gridRef, statsRef, tickCounter,
              pendingNews, clicks>>

\* the day/night clock
clockVars == <<timeOfDay, firings>>

\* the moving agents of the scene
agentVars == <<carsState, trainProgress, trainThrew>>

\* everything outside the city's state
sceneVars == <<clockVars, unhandledRejection, agentVars, rendered>>

vars == <<cityVars, sceneVars>>

\* IsoMap has not been followed yet
NotRendered == [cars |-> 0 - 1, people |-> 0 - 1, trains |-> 0 - 1]

(***************************************************************************)
(* createInitialGrid                                                       *)
(***************************************************************************)
Abs(n) == IF n < 0 THEN 0 - n ELSE n

\* Math.floor(center + Math.sin(y * 0.4) * 2.5) for y = 0 .. 24, tabulated
riverY(y) ==
  <<12, 12, 13, 14, 14, 14, 13, 12, 11, 10, 10, 9, 9, 9, 10, 11, 12, 13, 13,
    14, 14, 14, 13, 12, 11>>[y + 1]

\* Math.abs(x - riverY) < 1.5 on integers
isRiver(x, y) == Abs(x - riverY(y)) <= 1

isOwnedInitially(x, y) == Abs(x - center) <= ownedRadius /\ Abs(y - center) <= ownedRadius

\* Math.floor(dist * 500), dist = sqrt((x-center)^2 + (y-center)^2)
distTerm(x, y) ==
  LET d2 == (x - center) * (x - center) + (y - center) * (y - center)
  IN  CHOOSE r \in 0 .. 500 * (Abs(x - center) + Abs(y - center)) :
        r * r <= 250000 * d2 /\ (r + 1) * (r + 1) > 250000 * d2

initialTile(x, y, randomVariance) ==
  [x |-> x, y |-> y, buildingType |-> "None",
   owned |-> isOwnedInitially(x, y),
   isWater |-> isRiver(x, y),
   isRail |-> FALSE,
   landPrice |-> basePrice + randomVariance + distTerm(x, y)]

createInitialGrid(randomVariance) ==
  [c \in Window |-> initialTile(c[1], c[2], randomVariance)]

\* grid[y][x] of a window tile
TileAt(g, x, y) == g[<<x, y>>]

\* grid[y][x].owned: a tile outside the window is never clicked and keeps
\* the ownership createInitialGrid gave it
OwnedAt(g, x, y) ==
  IF <<x, y>> \in Window THEN g[<<x, y>>].owned ELSE isOwnedInitially(x, y)

(***************************************************************************)
(* News feed                                                               *)
(***************************************************************************)
NewsItem(text, type) == [text |-> text, type |-> type]

NoNews == NewsItem("", "")

\* prev.slice(-12)
SliceLast12(feed) ==
  IF Len(feed) <= 12 THEN feed ELSE SubSeq(feed, Len(feed) - 11, Len(feed))

\* (variant: nothing is dropped from the feed)
addNewsItemKeepsAll(feed, item) == Append(feed, item)

addNewsItem(feed, item) == Append(SliceLast12(feed), item)

\* the items of the feed that came from the news service
NewsInFeed(feed) == Cardinality({i \in 1 .. Len(feed) : feed[i].text = "news"})

(***************************************************************************)
(* handleTileClick: the pure parts                                         *)
(***************************************************************************)
\* (variant: the flat LAND_COST is charged whatever the tile's price)
landCostFlat(tile) == LAND_COST

\* currentTile.landPrice || LAND_COST
landCost(tile) == IF tile.landPrice = 0 THEN LAND_COST ELSE tile.landPrice

\* (variant: the half price is rounded up)
sellPriceRoundedUp(tile) == (landCost(tile) + 1) \div 2

\* (variant: the full price is paid back)
sellPriceFull(tile) == landCost(tile)

\* Math.floor((currentTile.landPrice || LAND_COST) * 0.5)
sellPrice(tile) == landCost(tile) \div 2

\* variant: diagonal neighbours count as well
hasOwnedNeighborDiag(g, x, y) ==
  \E dx \in {-1, 0, 1} : \E dy \in {-1, 0, 1} :
    /\ <<dx, dy>> # <<0, 0>>
    /\ x + dx \in 0 .. GRID_SIZE - 1
    /\ y + dy \in 0 .. GRID_SIZE - 1
    /\ OwnedAt(g, x + dx, y + dy)

hasOwnedNeighbor(g, x, y) ==
  \/ (x > 0 /\ OwnedAt(g, x - 1, y))
  \/ (x < GRID_SIZE - 1 /\ OwnedAt(g, x + 1, y))
  \/ (y > 0 /\ OwnedAt(g, x, y - 1))
  \/ (y < GRID_SIZE - 1 /\ OwnedAt(g, x, y + 1))

\* (variant: the bulldozer leaves the rail flag)
bulldozedTileKeepsRail(tile) == [tile EXCEPT !.buildingType = "None"]

\* the tile a successful bulldoze writes
bulldozedTile(tile) == [tile EXCEPT !.buildingType = "None", !.isRail = FALSE]

\* (variant: the rail flag follows the building placed)
placedTileRailFollows(tile, tool) ==
  [tile EXCEPT !.buildingType = tool, !.isRail = (tool = "Rail")]

\* the tile a successful placement writes
placedTile(tile, tool) ==
  IF tool = "Rail"
    THEN [tile EXCEPT !.buildingType = "Rail", !.isRail = TRUE]
    ELSE [tile EXCEPT !.buildingType = tool]

\* (variant: only an empty tile can be built on)
canPlaceOnEmptyOnly(tile, tool) == tile.buildingType = "None"

\* the condition of the placement branch
canPlace(tile, tool) ==
  \/ tile.buildingType = "None"
  \/ (tool = "Rail" /\ tile.isWater)
  \/ (tool = "Bridge" /\ tile.isWater)

\* (variant: ownership is checked on dry land only)
notOwnedOnDryLand(tile) == ~tile.owned /\ ~tile.isWater

\* the ownership check of the building tools: TRUE when the click is rejected by it
notOwned(tile) == ~tile.owned

\* the terrain check: TRUE when the click is rejected by it
\* (variant: only water is checked, a Bridge may go on dry land)
terrainRejectsOnWaterOnly(tile, tool) ==
  tile.isWater /\ tool # "Rail" /\ tool # "Bridge"

terrainRejects(tile, tool) ==
  IF tile.isWater THEN tool # "Rail" /\ tool # "Bridge" ELSE tool = "Bridge"

Outcome(changed, tile, delta, item) ==
  [changed |-> changed, tile |-> tile, delta |-> delta, item |-> item]

\* no tile is read or written
NoTile == [x |-> 0 - 1, y |-> 0 - 1]

Nothing(tile) == Outcome(FALSE, tile, 0, NoNews)

Reject(tile, text, type) == Outcome(FALSE, tile, 0, NewsItem(text, type))

\* (variant: water is bought and sold like dry land)
landClickWaterForSale(currentGrid, currentStats, x, y) ==
  LET currentTile == TileAt(currentGrid, x, y) IN
  IF currentTile.owned
    THEN IF currentTile.buildingType = "None"
           THEN Outcome(TRUE, [currentTile EXCEPT !.owned = FALSE],
                        sellPrice(currentTile), NewsItem("Land sold.", "neutral"))
           ELSE Reject(currentTile, "Must clear building before selling land.", "negative")
  ELSE IF hasOwnedNeighbor(currentGrid, x, y)
    THEN IF currentStats.money >= landCost(currentTile)
           THEN Outcome(TRUE, [currentTile EXCEPT !.owned = TRUE],
                        0 - landCost(currentTile),
                        NewsItem("New territory acquired.", "positive"))
           ELSE Reject(currentTile, "Insufficient funds. Plot costs.", "negative")
    ELSE Reject(currentTile, "Can only buy land adjacent to owned territory.", "neutral")

\* (variant: land is sold with the building on it)
landClickSellsBuilt(currentGrid, currentStats, x, y) ==
  LET currentTile == TileAt(currentGrid, x, y) IN
  IF currentTile.isWater
    THEN Reject(currentTile, "Cannot purchase protected public waterways.", "neutral")
  ELSE IF currentTile.owned
    THEN Outcome(TRUE, [currentTile EXCEPT !.owned = FALSE],
                 sellPrice(currentTile), NewsItem("Land sold.", "neutral"))
  ELSE IF hasOwnedNeighbor(currentGrid, x, y)
    THEN IF currentStats.money >= landCost(currentTile)
           THEN Outcome(TRUE, [currentTile EXCEPT !.owned = TRUE],
                        0 - landCost(currentTile),
                        NewsItem("New territory acquired.", "positive"))
           ELSE Reject(currentTile, "Insufficient funds. Plot costs.", "negative")
    ELSE Reject(currentTile, "Can only buy land adjacent to owned territory.", "neutral")

\* the Land tool branch
landClick(currentGrid, currentStats, x, y) ==
  LET currentTile == TileAt(currentGrid, x, y) IN
  IF currentTile.isWater
    THEN Reject(currentTile, "Cannot purchase protected public waterways.", "neutral")
  ELSE IF currentTile.owned
    THEN IF currentTile.buildingType = "None"
           THEN Outcome(TRUE, [currentTile EXCEPT !.owned = FALSE],
                        sellPrice(currentTile), NewsItem("Land sold.", "neutral"))
           ELSE Reject(currentTile, "Must clear building before selling land.", "negative")
  ELSE IF hasOwnedNeighbor(currentGrid, x, y)
    THEN IF currentStats.money >= landCost(currentTile)
           THEN Outcome(TRUE, [currentTile EXCEPT !.owned = TRUE],
                        0 - landCost(currentTile),
                        NewsItem("New territory acquired.", "positive"))
           ELSE Reject(currentTile, "Insufficient funds. Plot costs.", "negative")
    ELSE Reject(currentTile, "Can only buy land adjacent to owned territory.", "neutral")

\* the bulldoze branch
bulldozeClick(currentTile, currentStats) ==
  IF currentTile.buildingType # "None"
    THEN IF currentStats.money >= demolishCost
           THEN Outcome(TRUE, bulldozedTile(currentTile), 0 - demolishCost, NoNews)
           ELSE Reject(currentTile, "Cannot afford demolition costs.", "negative")
    ELSE Nothing(currentTile)

\* (variant: the cost is charged before the funds are checked)
placementClickChargesFirst(currentTile, currentStats, tool) ==
  IF canPlace(currentTile, tool)
    THEN IF currentStats.money >= BUILDINGS[tool].cost
           THEN Outcome(TRUE, placedTile(currentTile, tool), 0 - BUILDINGS[tool].cost, NoNews)
           ELSE Outcome(FALSE, currentTile, 0 - BUILDINGS[tool].cost,
                        NewsItem("Treasury insufficient.", "negative"))
    ELSE Nothing(currentTile)

\* the placement branch
placementClick(currentTile, currentStats, tool) ==
  IF canPlace(currentTile, tool)
    THEN IF currentStats.money >= BUILDINGS[tool].cost
           THEN Outcome(TRUE, placedTile(currentTile, tool), 0 - BUILDINGS[tool].cost, NoNews)
           ELSE Reject(currentTile, "Treasury insufficient.", "negative")
    ELSE Nothing(currentTile)

\* (variant: clicks are handled before the game is started)
clickOutcomeAnyTime(started, currentGrid, currentStats, x, y, tool) ==
  IF x < 0 \/ x >= GRID_SIZE \/ y < 0 \/ y >= GRID_SIZE
    THEN Nothing(NoTile)
  ELSE LET currentTile == TileAt(currentGrid, x, y) IN
    IF tool = "Land" THEN landClick(currentGrid, currentStats, x, y)
    ELSE IF notOwned(currentTile)
      THEN Reject(currentTile, "You do not own this land.", "negative")
    ELSE IF terrainRejects(currentTile, tool)
      THEN IF currentTile.isWater
             THEN Reject(currentTile, "Cannot build on water. Build a bridge!", "negative")
             ELSE Reject(currentTile, "Bridges must be built on water.", "negative")
    ELSE IF tool = "None" THEN bulldozeClick(currentTile, currentStats)
    ELSE placementClick(currentTile, currentStats, tool)

\* (variant: a click off the grid is reported in the feed)
clickOutcomeReportsBounds(started, currentGrid, currentStats, x, y, tool) ==
  IF ~started THEN Nothing(NoTile)
  ELSE IF x < 0 \/ x >= GRID_SIZE \/ y < 0 \/ y >= GRID_SIZE
    THEN Reject(NoTile, "Out of bounds.", "negative")
  ELSE LET currentTile == TileAt(currentGrid, x, y) IN
    IF tool = "Land" THEN landClick(currentGrid, currentStats, x, y)
    ELSE IF notOwned(currentTile)
      THEN Reject(currentTile, "You do not own this land.", "negative")
    ELSE IF terrainRejects(currentTile, tool)
      THEN IF currentTile.isWater
             THEN Reject(currentTile, "Cannot build on water. Build a bridge!", "negative")
             ELSE Reject(currentTile, "Bridges must be built on water.", "negative")
    ELSE IF tool = "None" THEN bulldozeClick(currentTile, currentStats)
    ELSE placementClick(currentTile, currentStats, tool)

\* (variant: the Land tool goes on to the placement branch)
clickOutcomeLandPlaced(started, currentGrid, currentStats, x, y, tool) ==
  IF ~started \/ x < 0 \/ x >= GRID_SIZE \/ y < 0 \/ y >= GRID_SIZE
    THEN Nothing(NoTile)
  ELSE LET currentTile == TileAt(currentGrid, x, y) IN
    IF notOwned(currentTile)
      THEN Reject(currentTile, "You do not own this land.", "negative")
    ELSE IF terrainRejects(currentTile, tool)
      THEN IF currentTile.isWater
             THEN Reject(currentTile, "Cannot build on water. Build a bridge!", "negative")
             ELSE Reject(currentTile, "Bridges must be built on water.", "negative")
    ELSE IF tool = "None" THEN bulldozeClick(currentTile, currentStats)
    ELSE placementClick(currentTile, currentStats, tool)

\* what one call of handleTileClick decides from the values it reads
clickOutcome(started, currentGrid, currentStats, x, y, tool) ==
  IF ~started \/ x < 0 \/ x >= GRID_SIZE \/ y < 0 \/ y >= GRID_SIZE
    THEN Nothing(NoTile)
  ELSE LET currentTile == TileAt(currentGrid, x, y) IN
    IF tool = "Land" THEN landClick(currentGrid, currentStats, x, y)
    ELSE IF notOwned(currentTile)
      THEN Reject(currentTile, "You do not own this land.", "negative")
    ELSE IF terrainRejects(currentTile, tool)
      THEN IF currentTile.isWater
             THEN Reject(currentTile, "Cannot build on water. Build a bridge!", "negative")
             ELSE Reject(currentTile, "Bridges must be built on water.", "negative")
    ELSE IF tool = "None" THEN bulldozeClick(currentTile, currentStats)
    ELSE placementClick(currentTile, currentStats, tool)

(***************************************************************************)
(* The economic tick: the pure parts                                       *)
(***************************************************************************)
RECURSIVE SumOver(_, _, _)
SumOver(S, g, field) ==
  IF S = {} THEN 0
  ELSE LET c == CHOOSE e \in S : TRUE
       IN  (IF g[c].buildingType # "None" /\ g[c].owned /\ g[c].buildingType # "Land"
              THEN BUILDINGS[g[c].buildingType][field] ELSE 0)
           + SumOver(S \ {c}, g, field)

\* (variant: popGen is summed in place of incomeGen)
dailyIncomeFromPopGen(g) == SumOver(Window, g, "popGen")

dailyIncome(g) == SumOver(Window, g, "incomeGen")

\* (variant: incomeGen is summed in place of popGen)
dailyPopGrowthFromIncome(g) == SumOver(Window, g, "incomeGen")

dailyPopGrowth(g) == SumOver(Window, g, "popGen")

\* buildingCounts[BuildingType.Residential] || 0
resCount(g) ==
  Cardinality({c \in Window : g[c].buildingType = "Residential" /\ g[c].owned})

Max(a, b) == IF a >= b THEN a ELSE b

Min(a, b) == IF a <= b THEN a ELSE b

\* (variant: the 50-per-house limit is not applied)
newPopulationUncapped(population, growth, residential) ==
  IF residential = 0 /\ population > 0 THEN Max(0, population - 5) ELSE population + growth

\* (variant: the limit is applied after the flight of people, not before)
newPopulationLimitLast(population, growth, residential) ==
  LET maxPop == residential * 50
      moved  == IF residential = 0 /\ population > 0
                  THEN Max(0, population - 5) ELSE population + growth
  IN  IF moved > maxPop THEN maxPop ELSE moved

\* (variant: the limit is 50 whatever the number of houses)
newPopulationFlatLimit(population, growth, residential) ==
  LET grown  == population + growth
      capped == IF grown > 50 THEN 50 ELSE grown
  IN  IF residential = 0 /\ population > 0 THEN Max(0, population - 5) ELSE capped

\* the population the setStats updater of the tick computes
newPopulation(population, growth, residential) ==
  LET maxPop == residential * 50
      grown  == population + growth
      capped == IF grown > maxPop THEN maxPop ELSE grown
  IN  IF residential = 0 /\ population > 0 THEN Max(0, population - 5) ELSE capped

\* (variant: the day advances on every tick)
tickStatsDayEveryTick(prev, g, isNewDay) ==
  [money      |-> prev.money + dailyIncome(g),
   population |-> newPopulation(prev.population, dailyPopGrowth(g), resCount(g)),
   day        |-> prev.day + 1]

tickStats(prev, g, isNewDay) ==
  [money      |-> prev.money + dailyIncome(g),
   population |-> newPopulation(prev.population, dailyPopGrowth(g), resCount(g)),
   day        |-> IF isNewDay THEN prev.day + 1 ELSE prev.day]

(***************************************************************************)
(* Initial states                                                          *)
(***************************************************************************)
\* the state App is constructed in
InitFresh ==
  /\ gameStarted = FALSE
  /\ \E rv \in RandomVariances : grid = createInitialGrid(rv)
  /\ stats = [money |-> INITIAL_MONEY, population |-> 0, day |-> 1]
  /\ newsFeed = <<>>
  /\ gridRef = grid
  /\ statsRef = stats
  /\ tickCounter = 0
  /\ pendingNews = 0
  /\ clicks = 0
  /\ timeOfDay = 0
  /\ firings = 0
  /\ unhandledRejection = FALSE
  /\ carsState = <<>>
  /\ trainProgress = 0
  /\ trainThrew = FALSE
  /\ rendered = NotRendered

\* Treasuries of a game in progress.  A Road placed (10) and bulldozed (5)
\* on an owned tile gives the grid back and costs 15, a Park placed and
\* bulldozed costs 55: 500 = 50000 - 3300 * 15, 100 = 50000 - 55 - 3323 * 15.
\* Neither click writes to the feed.
SpentMoney == {500, 100}

\* a started game whose treasury is spent down, refs synchronised
InitSpent ==
  /\ gameStarted = TRUE
  /\ \E rv \in RandomVariances : grid = createInitialGrid(rv)
  /\ \E m \in SpentMoney : stats = [money |-> m, population |-> 0, day |-> 1]
  /\ newsFeed = <<NewsItem("Welcome to POPLU CITY. Terrain generation complete.", "positive")>>
  /\ gridRef = grid
  /\ statsRef = stats
  /\ tickCounter = 0
  /\ pendingNews = 0
  /\ clicks = 0
  /\ timeOfDay = 0
  /\ firings = 0
  /\ unhandledRejection = FALSE
  /\ carsState = <<>>
  /\ trainProgress = 0
  /\ trainThrew = FALSE
  /\ rendered = NotRendered

\* a started game with a Park standing on <<13,10>> and 500 in the treasury,
\* refs synchronised: the Park placed (50), one Park placed and bulldozed
\* elsewhere (55) and 3293 Roads placed and bulldozed (15 each),
\* 500 = 50000 - 50 - 55 - 3293 * 15
InitParked ==
  /\ gameStarted = TRUE
  /\ \E rv \in RandomVariances :
       grid = [createInitialGrid(rv) EXCEPT ![<<13, 10>>] = placedTile(@, "Park")]
  /\ stats = [money |-> 500, population |-> 0, day |-> 1]
  /\ newsFeed = <<NewsItem("Welcome to POPLU CITY. Terrain generation complete.", "positive")>>
  /\ gridRef = grid
  /\ statsRef = stats
  /\ tickCounter = 0
  /\ pendingNews = 0
  /\ clicks = 0
  /\ timeOfDay = 0
  /\ firings = 0
  /\ unhandledRejection = FALSE
  /\ carsState = <<>>
  /\ trainProgress = 0
  /\ trainThrew = FALSE
  /\ rendered = NotRendered

\* tickCounter.current of a game that has run for eight ticks
LateStart == 8

\* the message of a building tool clicked on a tile that is not owned
NotOwnedItem == NewsItem("You do not own this land.", "negative")

\* the feed after the welcome and eleven clicks on land that is not owned
LateFeed ==
  <<NewsItem("Welcome to POPLU CITY. Terrain generation complete.", "positive")>>
    \o [i \in 1 .. 11 |-> NotOwnedItem]

\* a started game eight ticks old, nothing built: the treasury spent down to
\* 100 by Roads and a Park placed and bulldozed (see SpentMoney), eleven
\* clicks of a building tool on land that is not owned, refs synchronised.
\* With no building on the grid the eight ticks changed neither money nor
\* population, and the day changes on the tenth.  The 200 ms timer fires
\* ten times per tick of TICK_RATE_MS.
InitLate ==
  /\ gameStarted = TRUE
  /\ \E rv \in RandomVariances : grid = createInitialGrid(rv)
  /\ stats = [money |-> 100, population |-> 0, day |-> 1]
  /\ newsFeed = LateFeed
  /\ gridRef = grid
  /\ statsRef = stats
  /\ tickCounter = LateStart
  /\ pendingNews = 0
  /\ clicks = 0
  /\ timeOfDay = 10 * LateStart
  /\ firings = 10 * LateStart
  /\ unhandledRejection = FALSE
  /\ carsState = <<>>
  /\ trainProgress = 0
  /\ trainThrew = FALSE
  /\ rendered = NotRendered

Init == InitFresh \/ InitSpent \/ InitParked \/ InitLate

(***************************************************************************)
(* Actions                                                                 *)
(***************************************************************************)
\* handleStart, and the effect that greets the player once started
handleStart ==
  /\ ~gameStarted
  /\ gameStarted' = TRUE
  /\ newsFeed' = addNewsItem(newsFeed,
                   NewsItem("Welcome to POPLU CITY. Terrain generation complete.", "positive"))
  /\ UNCHANGED <<grid, stats, gridRef, statsRef, tickCounter, pendingNews, clicks>>
  /\ UNCHANGED sceneVars

\* useEffect(() => { gridRef.current = grid }), useEffect(() => { statsRef.current = stats })
SyncRefs ==
  /\ (gridRef # grid \/ statsRef # stats)
  /\ gridRef' = grid
  /\ statsRef' = stats
  /\ UNCHANGED <<gameStarted, grid, stats, newsFeed, tickCounter, pendingNews, clicks>>
  /\ UNCHANGED sceneVars

\* a behaviour fires MaxTicks ticks from the tickCounter it starts with
TicksLeft == \E s \in {0, LateStart} : tickCounter \in s .. s + MaxTicks - 1

\* (variant: the interval callback awaits fetchNews, so no tick fires while
\* a call to the news service is in flight)
TickAwaitsNews(callNews) ==
  /\ gameStarted
  /\ TicksLeft
  /\ pendingNews = 0
  /\ tickCounter' = tickCounter + 1
  /\ stats' = tickStats(stats, gridRef, (tickCounter + 1) % 10 = 0)
  /\ IF callNews
       THEN /\ NewsInFeed(newsFeed) = 0
            /\ pendingNews' = tickCounter + 1
       ELSE pendingNews' = pendingNews
  /\ UNCHANGED <<gameStarted, grid, newsFeed, gridRef, statsRef, clicks>>
  /\ UNCHANGED sceneVars

\* one firing of the TICK_RATE_MS interval; callNews is fetchNews's draw:
\* FALSE when Math.random() > 0.15 (it returns), TRUE when it calls the
\* news service (a behaviour makes one call: none is in flight, none has
\* delivered)
Tick(callNews) ==
  /\ gameStarted
  /\ TicksLeft
  /\ tickCounter' = tickCounter + 1
  /\ stats' = tickStats(stats, gridRef, (tickCounter + 1) % 10 = 0)
  /\ IF callNews
       THEN /\ pendingNews = 0
            /\ NewsInFeed(newsFeed) = 0
            /\ pendingNews' = tickCounter + 1
       ELSE pendingNews' = pendingNews
  /\ UNCHANGED <<gameStarted, grid, newsFeed, gridRef, statsRef, clicks>>
  /\ UNCHANGED sceneVars

\* a tick whose fetchNews returns without calling the service
QuietTick == Tick(FALSE)

\* a tick whose fetchNews calls the service
NewsTick == Tick(TRUE)

\* generateNewsEvent resolves with a news item
NewsArrives ==
  /\ pendingNews > 0
  /\ pendingNews' = 0
  /\ \E type \in {"positive", "neutral", "negative"} :
       newsFeed' = addNewsItem(newsFeed, NewsItem("news", type))
  /\ UNCHANGED <<gameStarted, grid, stats, gridRef, statsRef, tickCounter, clicks>>
  /\ UNCHANGED sceneVars

\* (variant: the failure is reported in the feed)
NewsFailsIntoFeed ==
  /\ pendingNews > 0
  /\ pendingNews' = 0
  /\ unhandledRejection' = TRUE
  /\ newsFeed' = addNewsItem(newsFeed, NewsItem("news", "negative"))
  /\ UNCHANGED <<gameStarted, grid, stats, gridRef, statsRef, tickCounter, clicks>>
  /\ UNCHANGED <<clockVars, agentVars, rendered>>

\* generateNewsEvent rejects: the await in fetchNews throws, the rest of
\* fetchNews is skipped and its promise, which the tick did not keep, is
\* rejected with nothing to handle it
NewsFails ==
  /\ pendingNews > 0
  /\ pendingNews' = 0
  /\ unhandledRejection' = TRUE
  /\ UNCHANGED <<gameStarted, grid, stats, newsFeed, gridRef, statsRef, tickCounter, clicks>>
  /\ UNCHANGED <<clockVars, agentVars, rendered>>

\* generateNewsEvent resolves with nothing
NewsNothing ==
  /\ pendingNews > 0
  /\ pendingNews' = 0
  /\ UNCHANGED <<gameStarted, grid, stats, newsFeed, gridRef, statsRef, tickCounter, clicks>>
  /\ UNCHANGED sceneVars

\* (variant: the tile is replaced in the latest grid, not in the grid the call read)
gridAfterClickOnLatest(g, currentGrid, r, x, y) ==
  IF r.changed THEN [g EXCEPT ![<<x, y>>] = r.tile] ELSE g

\* setGrid(newGrid): newGrid is a copy of the grid the call read, one tile replaced
gridAfterClick(g, currentGrid, r, x, y) ==
  IF r.changed THEN [currentGrid EXCEPT ![<<x, y>>] = r.tile] ELSE g

\* (variant: the click writes the stats it read, with its own change)
statsAfterClickFromRef(prev, r) == [statsRef EXCEPT !.money = @ + r.delta]

\* setStats(prev => ({...prev, money: prev.money + delta}))
statsAfterClick(prev, r) == [prev EXCEPT !.money = @ + r.delta]

\* addNewsItem of the call's message, if it has one
feedAfterClick(feed, r) == IF r.item = NoNews THEN feed ELSE addNewsItem(feed, r.item)

\* one call of handleTileClick(x, y) with the tool selected in the toolbar
handleTileClick(x, y, tool) ==
  /\ clicks < MaxClicks
  /\ clicks' = clicks + 1
  /\ LET r == clickOutcome(gameStarted, gridRef, statsRef, x, y, tool) IN
       /\ grid' = gridAfterClick(grid, gridRef, r, x, y)
       /\ stats' = statsAfterClick(stats, r)
       /\ newsFeed' = feedAfterClick(newsFeed, r)
  /\ UNCHANGED <<gameStarted, gridRef, statsRef, tickCounter, pendingNews>>
  /\ UNCHANGED sceneVars

Click == \E c \in ClickCoords, tool \in BuildingType : handleTileClick(c[1], c[2], tool)

\* (prev + 0.001) % 1 wraps after this many steps of 0.001
CycleSteps == 1000

\* (variant: the clock advances 0.005 per firing)
DayTimerFast ==
  /\ gameStarted
  /\ firings < MaxFirings
  /\ firings' = firings + 1
  /\ timeOfDay' = (timeOfDay + 5) % CycleSteps
  /\ UNCHANGED <<cityVars, unhandledRejection, agentVars, rendered>>

\* one firing of dayInterval: setTimeOfDay(prev => (prev + 0.001) % 1)
DayTimer ==
  /\ gameStarted
  /\ firings < MaxFirings
  /\ firings' = firings + 1
  /\ timeOfDay' = (timeOfDay + 1) % CycleSteps
  /\ UNCHANGED <<cityVars, unhandledRejection, agentVars, rendered>>

(***************************************************************************)
(* The scene (IsoMap.tsx): what the three movement systems draw from the   *)
(* grid and the population, and how each frame moves the cars and the      *)
(* train.                                                                  *)
(***************************************************************************)
\* the place of a tile in grid.forEach(row => row.forEach(tile => ...))
gridOrder(c) == c[2] * GRID_SIZE + c[1]

\* TrafficSystem roadTiles
roadTilesOf(g) == {c \in DOMAIN g : g[c].buildingType \in {"Road", "Bridge"}}

\* (variant: no cap on the number of cars)
carCountUncapped(roads) == Cardinality(roads)

\* Math.min(roadTiles.length, 30)
carCount(roads) == Min(Cardinality(roads), 30)

\* the instances of the cars' instancedMesh; null below two road tiles
carsRendered(g) ==
  IF Cardinality(roadTilesOf(g)) < 2 THEN 0 ELSE carCount(roadTilesOf(g))

\* TrainSystem railTiles before sorting
railTilesOf(g) == {c \in DOMAIN g : g[c].buildingType = "Rail" \/ g[c].isRail}

\* the sign of (a.x - b.x) + (a.y - b.y) * 0.1, in tenths
railOrder(a, b) == 10 * (a[1] - b[1]) + (a[2] - b[2])

\* tiles.sort(comparator): ascending, equal tiles keep their grid order
RECURSIVE sortedRails(_)
sortedRails(S) ==
  IF S = {} THEN <<>>
  ELSE LET first == CHOOSE a \in S : \A b \in S \ {a} :
                      \/ railOrder(a, b) < 0
                      \/ (railOrder(a, b) = 0 /\ gridOrder(a) < gridOrder(b))
       IN  <<first>> \o sortedRails(S \ {first})

railTiles(g) == sortedRails(railTilesOf(g))

\* the train group is returned unless railTiles is empty
trainsRendered(g) == IF Cardinality(railTilesOf(g)) = 0 THEN 0 ELSE 1

\* PopulationSystem walkableTiles: the tiles of g, and the tiles outside it,
\* which are as the grid was generated
walkableTilesOf(g) ==
  {c \in DOMAIN g : /\ g[c].owned
                    /\ ~g[c].isWater
                    /\ ~g[c].isRail
                    /\ g[c].buildingType \in {"Road", "Park", "None"}}
  \cup {c \in ((0 .. GRID_SIZE - 1) \X (0 .. GRID_SIZE - 1)) \ DOMAIN g :
          isOwnedInitially(c[1], c[2]) /\ ~isRiver(c[1], c[2])}

\* (variant: one pedestrian per inhabitant)
agentCountPerHead(population) == Min(population, 300)

\* Math.min(Math.floor(population / 2), 300)
agentCount(population) == Min(population \div 2, 300)

\* the instances of the pedestrians' instancedMesh; null when agentCount is 0
peopleRendered(population) == agentCount(population)

\* getRandomRange(0.01, 0.03), in hundredths of a tile per frame
CarSpeeds == {1, 2}

\* a car as the seeding effect leaves it: on its start tile, progress 1
seededCar(startNode, speed) ==
  [cur |-> startNode, tar |-> startNode, progress |-> 100, speed |-> speed]

\* the effect of TrafficSystem that seeds carsState
SeedCars ==
  LET roads == roadTilesOf(grid) IN
  /\ carsState = <<>>
  /\ Cardinality(roads) >= 2
  /\ carsState' \in [1 .. carCount(roads) ->
                       {seededCar(t, s) : t \in roads, s \in CarSpeeds}]
  /\ UNCHANGED <<cityVars, clockVars, unhandledRejection, trainProgress, trainThrew, rendered>>

\* road tiles at distance 1 along x or along y
roadNeighbors(roads, c) ==
  {t \in roads : \/ (Abs(t[1] - c[1]) = 1 /\ t[2] = c[2])
                 \/ (Abs(t[2] - c[2]) = 1 /\ t[1] = c[1])}

\* (variant: the tile just left is as good as any other neighbour)
nextTargetsWithReversal(roads, stored, c) == roadNeighbors(roads, c)

\* the tiles the next target is drawn from; stored is the current tile still
\* held in carsState, the one the car has just left
nextTargets(roads, stored, c) ==
  LET neighbors == roadNeighbors(roads, c)
      valid == IF Cardinality(neighbors) > 1
                 THEN {n \in neighbors : n[1] # stored[1] \/ n[2] # stored[2]}
                 ELSE neighbors
  IN  IF valid # {}
        THEN valid
        ELSE {CHOOSE n \in neighbors : \A m \in neighbors : gridOrder(n) <= gridOrder(m)}

\* (variant: progress is not reset on arrival)
carFrameNoReset(roads, c) ==
  LET progress == c.progress + c.speed IN
  IF progress < 100 \/ roadNeighbors(roads, c.tar) = {}
    THEN {[c EXCEPT !.progress = progress]}
    ELSE {[cur |-> c.tar, tar |-> n, progress |-> progress, speed |-> c.speed] :
            n \in nextTargets(roads, c.cur, c.tar)}

\* one car in one frame: the records it may be left with
carFrame(roads, c) ==
  LET progress == c.progress + c.speed IN
  IF progress < 100
    THEN {[c EXCEPT !.progress = progress]}
  ELSE IF roadNeighbors(roads, c.tar) # {}
    THEN {[cur |-> c.tar, tar |-> n, progress |-> 0, speed |-> c.speed] :
            n \in nextTargets(roads, c.cur, c.tar)}
    ELSE {[cur |-> rnd, tar |-> rnd, progress |-> 0, speed |-> c.speed] : rnd \in roads}

\* one call of TrafficSystem's frame callback: every car in turn
CarsFrame ==
  LET roads == roadTilesOf(grid) IN
  /\ Cardinality(roads) >= 2
  /\ carsState # <<>>
  /\ carsState' \in
       {f \in [1 .. carCount(roads) ->
                 UNION {carFrame(roads, carsState[i]) : i \in 1 .. carCount(roads)}] :
          \A i \in 1 .. carCount(roads) : f[i] \in carFrame(roads, carsState[i])}
  /\ UNCHANGED <<cityVars, clockVars, unhandledRejection, trainProgress, trainThrew, rendered>>

\* progressRef counts in twentieths of a tile: one frame of 1/60 s at
\* speed = 3 tiles per second adds 1/20
ProgressUnit == 20

\* delta of a frame, in sixtieths of a second
FrameDeltas == {1, 2}

\* progressRef.current % (totalLen * 2)
rawPos(totalLen, progress) == progress % (totalLen * 2 * ProgressUnit)

\* rawPos > totalLen ? (totalLen * 2) - rawPos : rawPos
trainPos(totalLen, progress) ==
  LET raw == rawPos(totalLen, progress) IN
  IF raw > totalLen * ProgressUnit THEN totalLen * 2 * ProgressUnit - raw ELSE raw

\* Math.floor(pos), an index into railTiles counted from 0
trainIdx(totalLen, progress) == trainPos(totalLen, progress) \div ProgressUnit

\* railTiles[idx] is undefined and cur.x raises a TypeError
trainFrameThrows(totalLen, progress) == trainIdx(totalLen, progress) >= totalLen

\* what a frame that does not throw leaves in trainRef: the position (times
\* ProgressUnit), the travel vector next - cur and whether pi was added
trainPose(rails, progress) ==
  LET totalLen == Len(rails)
      idx == trainIdx(totalLen, progress)
      nextIdx == Min(idx + 1, totalLen - 1)
      t == trainPos(totalLen, progress) - idx * ProgressUnit
      cur == rails[idx + 1]
      next == rails[nextIdx + 1]
  IN  [x |-> cur[1] * ProgressUnit + (next[1] - cur[1]) * t,
       y |-> cur[2] * ProgressUnit + (next[2] - cur[2]) * t,
       dx |-> next[1] - cur[1],
       dy |-> next[2] - cur[2],
       reversed |-> rawPos(totalLen, progress) > totalLen * ProgressUnit]

\* one call of TrainSystem's frame callback
TrainFrame ==
  \E delta \in FrameDeltas :
    LET rails == railTiles(grid) IN
    /\ Len(rails) >= 2
    /\ trainProgress < MaxProgress
    /\ trainProgress' = trainProgress + delta
    /\ trainThrew' = (trainThrew \/ trainFrameThrows(Len(rails), trainProgress'))
    /\ UNCHANGED <<cityVars, clockVars, unhandledRejection, carsState, rendered>>

\* the window after the plot <<14,9>> was bought where needed and the tiles
\* of S were built on: a Bridge (roads) or a Rail on water, else the tool
builtGrid(rv, S, tool) ==
  [c \in Window |->
     LET tile == initialTile(c[1], c[2], rv) IN
     IF c \in S
       THEN placedTile([tile EXCEPT !.owned = TRUE],
                       IF tile.isWater /\ tool = "Road" THEN "Bridge" ELSE tool)
       ELSE tile]

\* the road graphs followed: none, one tile, two adjacent tiles, a Bridge
\* and a Road apart from each other, a line of three with a corner, and
\* two adjacent tiles with a Bridge apart from them
RoadLayouts ==
  {{}, {<<13, 10>>}, {<<13, 10>>, <<14, 10>>}, {<<11, 10>>, <<13, 10>>},
   {<<13, 10>>, <<14, 10>>, <<14, 9>>}, {<<11, 10>>, <<13, 10>>, <<14, 10>>}}

\* the rail lists followed: every choice among four tiles of the window
RailLayouts == SUBSET {<<11, 10>>, <<13, 10>>, <<14, 10>>, <<14, 9>>}

\* a started game, refs synchronised, 500 in the treasury (spent down by
\* placing and bulldozing as for InitParked), with the given grid
InitBuilt(g) ==
  /\ gameStarted = TRUE
  /\ grid = g
  /\ stats = [money |-> 500, population |-> 0, day |-> 1]
  /\ newsFeed = <<NewsItem("Welcome to POPLU CITY. Terrain generation complete.", "positive")>>
  /\ gridRef = grid
  /\ statsRef = stats
  /\ tickCounter = 0
  /\ pendingNews = 0
  /\ clicks = 0
  /\ timeOfDay = 0
  /\ firings = 0
  /\ unhandledRejection = FALSE
  /\ carsState = <<>>
  /\ trainProgress = 0
  /\ trainThrew = FALSE
  /\ rendered = NotRendered

InitRoads ==
  \E rv \in RandomVariances, S \in RoadLayouts : InitBuilt(builtGrid(rv, S, "Road"))

InitRails ==
  \E rv \in RandomVariances, S \in RailLayouts : InitBuilt(builtGrid(rv, S, "Rail"))

\* the cars on a road graph that does not change
NextTraffic ==
  \/ SeedCars
  \/ CarsFrame

SpecTraffic == InitRoads /\ [][NextTraffic]_vars

\* the train on a rail list that does not change
NextTrain == TrainFrame

SpecTrain == InitRails /\ [][NextTrain]_vars

\* the i-th tile of rows 12 and 13, counted from 0
rowTile(i) == <<i % GRID_SIZE, 12 + i \div GRID_SIZE>>

\* the window as generated, and the first k tiles of rows 12 and 13 bought
\* where needed and carrying a Road, or a Bridge where the river crosses
roadRows(rv, k) ==
  [c \in Window \cup {rowTile(i) : i \in 0 .. k - 1} |->
     LET tile == initialTile(c[1], c[2], rv) IN
     IF c \in Window
       THEN tile
       ELSE placedTile([tile EXCEPT !.owned = TRUE],
                       IF tile.isWater THEN "Bridge" ELSE "Road")]

\* a started game with up to MaxRoads road tiles and up to MaxPopulation
\* inhabitants, before IsoMap is rendered with them
InitCounts ==
  /\ gameStarted = TRUE
  /\ \E rv \in RandomVariances, k \in 0 .. MaxRoads : grid = roadRows(rv, k)
  /\ \E p \in 0 .. MaxPopulation : stats = [money |-> 500, population |-> p, day |-> 1]
  /\ newsFeed = <<NewsItem("Welcome to POPLU CITY. Terrain generation complete.", "positive")>>
  /\ gridRef = grid
  /\ statsRef = stats
  /\ tickCounter = 0
  /\ pendingNews = 0
  /\ clicks = 0
  /\ timeOfDay = 0
  /\ firings = 0
  /\ unhandledRejection = FALSE
  /\ carsState = <<>>
  /\ trainProgress = 0
  /\ trainThrew = FALSE
  /\ rendered = NotRendered

\* IsoMap is rendered with the grid and the population of the state
RenderIsoMap ==
  /\ rendered' = [cars   |-> carsRendered(grid),
                  people |-> peopleRendered(stats.population),
                  trains |-> trainsRendered(grid)]
  /\ UNCHANGED <<cityVars, clockVars, unhandledRejection, agentVars>>

\* the numbers of agents drawn, for grids and populations of any size
NextCounts == RenderIsoMap

SpecCounts == InitCounts /\ [][NextCounts]_vars

\* the game while fetchNews never calls the news service (its draw exceeds
\* 0.15 on every tick)
Next ==
  \/ handleStart
  \/ SyncRefs
  \/ QuietTick
  \/ Click

Spec == Init /\ [][Next]_vars

\* the game with the news service
NextWithNews ==
  \/ Next
  \/ NewsTick
  \/ NewsArrives
  \/ NewsNothing
  \/ NewsFails

SpecWithNews == Init /\ [][NextWithNews]_vars

\* the two timers of the game loop, no click
NextClock ==
  \/ handleStart
  \/ QuietTick
  \/ DayTimer

SpecClock == (InitFresh \/ InitLate) /\ [][NextClock]_vars

(***************************************************************************)
(* Properties.  A click is read through what handleTileClick reads: the    *)
(* tile and the money of gridRef.current and statsRef.current.  A claim    *)
(* about what a click does is stated in every reachable state, for every   *)
(* tile and tool, of the state the call leaves.                            *)
(***************************************************************************)
\* this step is the call handleTileClick(c) with the tool selected
ClickAt(c, tool) == handleTileClick(c[1], c[2], tool)

\* what that call decides in the current state
Decision(c, tool) == clickOutcome(gameStarted, gridRef, statsRef, c[1], c[2], tool)

\* the state that call leaves: the values its setGrid, setStats and
\* addNewsItem produce
After(c, tool) ==
  LET r == Decision(c, tool)
  IN  [grid     |-> gridAfterClick(grid, gridRef, r, c[1], c[2]),
       stats    |-> statsAfterClick(stats, r),
       newsFeed |-> feedAfterClick(newsFeed, r)]

\* this step is a firing of the economic tick
TickStep == tickCounter' = tickCounter + 1

\* the tools that place a building
BuildTools == BuildingType \ {"None", "Land"}

\* the feed holds a message with this text
InFeed(text) == \E i \in 1 .. Len(newsFeed) : newsFeed[i].text = text

\* C1: after any successful bulldoze or placement click, every tile with
\* isRail = TRUE has buildingType Rail.
C1_RailFlagMeansRail ==
  [][\A c \in Window, tool \in BuildingType \ {"Land"} :
       (ClickAt(c, tool) /\ Decision(c, tool).changed)
         => \A d \in Window : grid'[d].isRail => grid'[d].buildingType = "Rail"]_vars

\* C2 as claimed: after every economic tick, population <= 50 * the number
\* of owned Residential tiles that tick counted.
C2_PopulationWithinCapacity ==
  [][TickStep => stats'.population <= 50 * resCount(gridRef)]_vars

\* C2 as amended: after every economic tick, population <= 50 * the number
\* of owned Residential tiles that tick counted, except on a tick that
\* counted none while population was positive: that tick leaves
\* max(0, population - 5).
C2_PopulationWithinCapacityOrFleeing ==
  [][TickStep =>
       IF resCount(gridRef) = 0 /\ stats.population > 0
         THEN stats'.population = Max(0, stats.population - 5)
         ELSE stats'.population <= 50 * resCount(gridRef)]_vars

\* a tick has capped the population at 50 * residential count
C2_Witness ==
  /\ tickCounter = 4
  /\ resCount(gridRef) = 1
  /\ stats.population = 50

\* C3: a tick that counts no Residential tile sets population to
\* max(0, population - 5): a strict decrease while population > 0, whatever
\* popGen the other buildings contribute, and 0 stays 0.
C3_FlightWithoutHomes ==
  [][(TickStep /\ resCount(gridRef) = 0) =>
       /\ stats'.population = Max(0, stats.population - 5)
       /\ stats.population > 0 => stats'.population < stats.population
       /\ stats.population = 0 => stats'.population = 0]_vars

\* people have left: no Residential tile, a Park still standing, and the
\* population down from 12 to 7
C3_Witness ==
  /\ resCount(gridRef) = 0
  /\ dailyPopGrowth(gridRef) > 0
  /\ tickCounter = 3
  /\ stats.population = 7

\* C4: a click with any tool but Land on a tile that is not owned changes
\* neither money, population, day nor any tile.
C4_UnownedTileRejected ==
  gameStarted =>
    LET told == addNewsItem(newsFeed, NewsItem("You do not own this land.", "negative")) IN
    \A c \in Window :
      ~gridRef[c].owned =>
        \A tool \in BuildingType \ {"Land"} :
          LET after == After(c, tool)
          IN  /\ after.grid = grid
              /\ after.stats = stats
              /\ after.newsFeed = told

\* a building tool was used on an unowned tile
C4_Witness ==
  /\ InFeed("You do not own this land.")
  /\ Len(newsFeed) = 2
  /\ clicks = 1
  /\ grid = gridRef
  /\ stats = statsRef

\* one of the four orthogonal neighbours of c is owned in the grid the click reads
OrthNeighbourOwned(c) ==
  \E d \in {<<c[1] - 1, c[2]>>, <<c[1] + 1, c[2]>>, <<c[1], c[2] - 1>>, <<c[1], c[2] + 1>>} :
    /\ d[1] \in 0 .. GRID_SIZE - 1
    /\ d[2] \in 0 .. GRID_SIZE - 1
    /\ OwnedAt(gridRef, d[1], d[2])

\* the tool passes the terrain rule on tile t
TerrainAllows(t, tool) ==
  IF t.isWater THEN tool \in {"Rail", "Bridge"} ELSE tool # "Bridge"

\* the placement condition of the claim: empty, or Rail / Bridge over water
Buildable(t, tool) ==
  t.buildingType = "None" \/ (tool \in {"Rail", "Bridge"} /\ t.isWater)

\* the rejections C5 lists, for the tile t and the money m the click reads;
\* near says that an orthogonal neighbour of the tile is owned
RejectedClick(t, m, near, tool) ==
  IF tool = "Land"
    THEN \/ t.isWater
         \/ ~t.isWater /\ t.owned /\ t.buildingType # "None"
         \/ ~t.isWater /\ ~t.owned /\ ~near
         \/ ~t.isWater /\ ~t.owned /\ near /\ m < t.landPrice
    ELSE \/ ~t.owned
         \/ t.owned /\ ~TerrainAllows(t, tool)
         \/ tool = "None" /\ t.owned /\ ~t.isWater /\ t.buildingType # "None" /\ m < 5
         \/ /\ tool \in BuildTools
            /\ t.owned
            /\ TerrainAllows(t, tool)
            /\ Buildable(t, tool)
            /\ m < BUILDINGS[tool].cost

\* C5: every rejected click (insufficient funds for land, building or
\* demolition; unowned tile; water tile with a tool other than Rail or
\* Bridge; Bridge on dry land; land purchase without an owned neighbour;
\* Land tool on water; selling land that has a building) leaves the grid and
\* money, population and day unchanged and appends at most one message.
C5_RejectedClickChangesNothing ==
  gameStarted =>
    LET kept == SliceLast12(newsFeed) IN
    \A c \in Window :
      LET near == OrthNeighbourOwned(c) IN
      \A tool \in BuildingType :
        RejectedClick(gridRef[c], statsRef.money, near, tool)
          => LET after == After(c, tool)
             IN  /\ after.grid = grid
                 /\ after.stats = stats
                 /\ \/ after.newsFeed = newsFeed
                    \/ /\ Len(after.newsFeed) = Len(kept) + 1
                       /\ SubSeq(after.newsFeed, 1, Len(kept)) = kept

\* a demolition was refused for lack of money
C5_Witness ==
  /\ InFeed("Cannot afford demolition costs.")
  /\ stats.money < 5
  /\ \E c \in Window : grid[c].buildingType # "None"

\* C6: the Land tool on an unowned dry tile with an owned orthogonal
\* neighbour and money >= landPrice takes exactly landPrice from money and
\* makes the tile owned, buildingType and isRail unchanged.
C6_BuyLand ==
  \A c \in Window :
    LET t == gridRef[c] IN
    (/\ gameStarted
     /\ ~t.isWater
     /\ ~t.owned
     /\ OrthNeighbourOwned(c)
     /\ statsRef.money >= t.landPrice)
      => LET after == After(c, "Land")
         IN  /\ after.stats = [stats EXCEPT !.money = stats.money - t.landPrice]
             /\ after.grid[c].owned
             /\ after.grid[c].buildingType = t.buildingType
             /\ after.grid[c].isRail = t.isRail

\* the plot at <<14, 9>>, priced 7000, was bought with 50000 in the treasury
C6_Witness ==
  /\ grid[<<14, 9>>].owned
  /\ grid[<<14, 9>>].landPrice = 7000
  /\ stats.money = 43000
  /\ clicks = 1

\* C7: the Land tool on an owned dry tile sells it when it is empty (the
\* tile becomes unowned, money rises by floor(landPrice * 0.5)) and is
\* rejected when it holds a building (grid and money unchanged).
C7_SellLand ==
  \A c \in Window :
    LET t == gridRef[c] IN
    (gameStarted /\ ~t.isWater /\ t.owned)
      => LET after  == After(c, "Land")
             credit == after.stats.money - stats.money
         IN  IF t.buildingType = "None"
               THEN /\ after.grid[c] = [t EXCEPT !.owned = FALSE]
                    /\ 2 * credit <= t.landPrice
                    /\ t.landPrice < 2 * credit + 2
                    /\ after.stats = [stats EXCEPT !.money = stats.money + credit]
               ELSE /\ after.grid = grid
                    /\ after.stats = stats

\* the owned plot at <<14, 10>>, priced 6612, was sold for 3306
C7_Witness ==
  /\ ~grid[<<14, 10>>].owned
  /\ grid[<<14, 10>>].landPrice = 6612
  /\ stats.money = INITIAL_MONEY + 3306
  /\ clicks = 1

\* C8: buying an unowned empty tile and then, once the refs hold the
\* purchase, selling the same tile leaves the tile unowned and the money
\* lower than before the purchase by exactly landPrice - floor(landPrice / 2),
\* which is more than 0.
C8_BuyThenSellLosesHalf ==
  \A c \in Window :
    LET t == gridRef[c] IN
    (/\ gameStarted
     /\ ~t.isWater
     /\ ~t.owned
     /\ t.buildingType = "None"
     /\ OrthNeighbourOwned(c)
     /\ statsRef.money >= t.landPrice)
      => LET buy    == Decision(c, "Land")
             grid1  == gridAfterClick(grid, gridRef, buy, c[1], c[2])
             stats1 == statsAfterClick(stats, buy)
             sell   == clickOutcome(gameStarted, grid1, stats1, c[1], c[2], "Land")
             grid2  == gridAfterClick(grid1, grid1, sell, c[1], c[2])
             stats2 == statsAfterClick(stats1, sell)
             loss   == stats.money - stats2.money
         IN  /\ grid1[c].owned
             /\ ~grid2[c].owned
             /\ grid2 = gridRef
             /\ loss > 0
             /\ 2 * (t.landPrice - loss) <= t.landPrice
             /\ t.landPrice < 2 * (t.landPrice - loss) + 2

\* the plot at <<14, 9>> was bought for 7000 and sold again for 3500
C8_Witness ==
  /\ ~grid[<<14, 9>>].owned
  /\ InFeed("New territory acquired.")
  /\ InFeed("Land sold.")
  /\ stats.money = INITIAL_MONEY - 3500
  /\ clicks = 2

\* owned tiles of the grid the tick reads that hold building b
CountOf(b) == Cardinality({c \in Window : gridRef[c].owned /\ gridRef[c].buildingType = b})


C10_Placement ==
  \A c \in Window, tool \in BuildTools :
    LET t == gridRef[c] IN
    (gameStarted /\ t.owned /\ TerrainAllows(t, tool))
      => LET after == After(c, tool)
         IN  /\ IF Buildable(t, tool) /\ statsRef.money >= BUILDINGS[tool].cost
                  THEN /\ after.stats = [stats EXCEPT !.money = stats.money - BUILDINGS[tool].cost]
                       /\ after.grid[c].buildingType = tool
                       /\ tool = "Rail" => after.grid[c].isRail
                       /\ after.grid[c].owned
                  ELSE /\ after.grid = grid
                       /\ after.stats = stats
             /\ (~t.isWater /\ t.buildingType # "None") => after.newsFeed = newsFeed

\* a Rail was laid over a Bridge on the owned water tile <<11, 10>>
C10_Witness ==
  /\ grid[<<11, 10>>].buildingType = "Rail"
  /\ grid[<<11, 10>>].isRail
  /\ stats.money = INITIAL_MONEY - 1000 - 150
  /\ clicks = 2

\* C11: bulldoze (tool None) on an owned dry tile: a tile with a building
\* and money >= 5 loses the building and the rail flag and money falls by
\* exactly 5; with money < 5 grid and stats stay as they are; an empty tile
\* changes nothing and no message is added.
C11_Bulldoze ==
  gameStarted =>
    \A c \in Window :
      LET t == gridRef[c] IN
      (t.owned /\ ~t.isWater) =>
        LET after == After(c, "None") IN
        IF t.buildingType = "None"
          THEN /\ after.grid = grid
               /\ after.stats = stats
               /\ after.newsFeed = newsFeed
        ELSE IF statsRef.money >= 5
          THEN /\ after.stats = [stats EXCEPT !.money = stats.money - 5]
               /\ after.grid[c].buildingType = "None"
               /\ ~after.grid[c].isRail
               /\ after.grid[c].owned
          ELSE /\ after.grid = grid
               /\ after.stats = stats

\* a Rail (150) was laid with 500 in the treasury and bulldozed (5)
C11_Witness ==
  /\ stats.money = 345
  /\ clicks = 2
  /\ \A c \in Window : ~grid[c].isRail /\ grid[c].buildingType \in {"None", "Park"}

\* the terrain rule on a grid
TerrainRule(g) ==
  \A c \in Window :
    /\ g[c].buildingType = "Bridge" => g[c].isWater
    /\ g[c].isWater => g[c].buildingType \in {"None", "Rail", "Bridge"}

\* C12: in every reachable grid a tile with buildingType Bridge is a water
\* tile, and a water tile holds no building other than Rail or Bridge.
C12_TerrainRule == TerrainRule(grid) /\ TerrainRule(gridRef)

\* a Bridge stands on the owned water tile <<11, 10>>
C12_Witness ==
  /\ grid[<<11, 10>>].buildingType = "Bridge"
  /\ grid[<<11, 10>>].isWater
  /\ clicks = 1

\* the incomeGen / popGen of the owned tiles of the grid the tick reads,
\* summed building by building
SumByBuilding(field) ==
    CountOf("Road") * BUILDINGS["Road"][field]
  + CountOf("Residential") * BUILDINGS["Residential"][field]
  + CountOf("Commercial") * BUILDINGS["Commercial"][field]
  + CountOf("Industrial") * BUILDINGS["Industrial"][field]
  + CountOf("Park") * BUILDINGS["Park"][field]
  + CountOf("Rail") * BUILDINGS["Rail"][field]
  + CountOf("TrainStation") * BUILDINGS["TrainStation"][field]
  + CountOf("Bridge") * BUILDINGS["Bridge"][field]

\* C13: each economic tick adds to money exactly the sum of incomeGen over
\* the owned tiles whose buildingType is neither None nor Land; a tick never
\* lowers money, and money falls only in a step that is a click.
C13_TickIncome ==
  [][/\ TickStep => /\ stats'.money = stats.money + SumByBuilding("incomeGen")
                    /\ stats'.money >= stats.money
     /\ stats'.money < stats.money => clicks' = clicks + 1]_vars

\* a Commercial building (200) bought with 500 has paid 15 on one tick
C13_Witness ==
  /\ CountOf("Commercial") = 1
  /\ stats.money = 315
  /\ tickCounter = 1

\* C14: on an economic tick that counts at least one Residential tile, or
\* with population 0, the new population is population + dailyPopGrowth
\* clamped to 0 .. 50 * residentialCount, dailyPopGrowth the sum of popGen
\* over the owned built tiles; with no Residential tile and population > 0
\* it is max(0, population - 5).
C14_PopulationClamp ==
  [][TickStep =>
       LET res    == CountOf("Residential")
           growth == SumByBuilding("popGen")
           pop    == stats.population
       IN  IF res >= 1 \/ pop = 0
             THEN stats'.population = Min(Max(pop + growth, 0), 50 * res)
             ELSE stats'.population = Max(0, pop - 5)]_vars

\* a house next to the Park: one tick has brought 5 + 1 people
C14_Witness ==
  /\ CountOf("Residential") = 1
  /\ CountOf("Park") = 1
  /\ stats.population = 6
  /\ tickCounter = 1

\* C15: day is 1 + floor(n / 10) after n ticks; it rises by exactly 1 on
\* every tenth tick and changes in no other step, click steps included.
C15_DayCounter ==
  /\ [](stats.day = 1 + tickCounter \div 10)
  /\ [][/\ stats'.day >= stats.day
        /\ stats'.day # stats.day => (TickStep /\ tickCounter' % 10 = 0)
        /\ (TickStep /\ tickCounter' % 10 = 0) => stats'.day = stats.day + 1
        /\ clicks' # clicks => stats'.day = stats.day]_vars

\* the tenth tick has fired, and two clicks with it
C15_Witness ==
  /\ tickCounter = 10
  /\ stats.day = 2
  /\ clicks = 2

\* new is old with one item appended, the oldest items dropped so that at
\* most 12 of the old ones are kept, in their order
FeedAppended(old, new) ==
  LET n == Len(old)
      m == Len(new)
  IN  /\ m = Min(n, 12) + 1
      /\ \A k \in 1 .. m - 1 : new[k] = old[n - m + 1 + k]

\* C16: the feed never holds more than 13 items; every change of the feed
\* (news result, click message, welcome) appends one item as the last and
\* drops the oldest one when the feed was full.
C16_FeedBounded ==
  /\ [](Len(newsFeed) <= 13)
  /\ [][newsFeed' # newsFeed =>
          /\ FeedAppended(newsFeed, newsFeed')
          /\ pendingNews' # pendingNews => newsFeed'[Len(newsFeed')].text = "news"
          /\ gameStarted' # gameStarted =>
               newsFeed'[Len(newsFeed')].text
                 = "Welcome to POPLU CITY. Terrain generation complete."]_vars

\* a news result was appended to a full feed: the welcome is gone
C16_Witness ==
  /\ Len(newsFeed) = 13
  /\ newsFeed[1] = NotOwnedItem
  /\ newsFeed[13].text = "news"

\* C17: while a call to the news service is pending the economic tick can
\* still fire and update money, population and day, and the result can
\* still arrive and be appended to the feed, whatever ticks and clicks have
\* happened since the call.
C17_NewsDoesNotBlock ==
  pendingNews > 0 =>
    /\ TicksLeft =>
         ENABLED (/\ QuietTick
                  /\ stats'.money = stats.money + SumByBuilding("incomeGen")
                  /\ stats'.day = 1 + (tickCounter + 1) \div 10
                  /\ pendingNews' = pendingNews)
    /\ ENABLED (/\ NewsArrives
                /\ FeedAppended(newsFeed, newsFeed')
                /\ newsFeed'[Len(newsFeed')].text = "news")

\* the call made by the first tick is still pending after the fourth, two
\* clicks and three more ticks later, and the population has grown to 50
C17_Witness ==
  /\ pendingNews = 1
  /\ tickCounter = 4
  /\ clicks = 2
  /\ stats.population = 50

\* C18: a successful click on one tile leaves every other tile of the grid
\* as it is, so that no earlier click's tile change is lost while its money
\* stays debited, whatever the interleaving of clicks, ticks and ref
\* synchronisation.
C18_ClickKeepsEarlierChanges ==
  \A c \in Window, tool \in BuildingType :
    Decision(c, tool).changed =>
      \A d \in Window \ {c} : After(c, tool).grid[d] = grid[d]

\* C19: a successful click replaces exactly the clicked tile: every other
\* tile of the new grid is the tile of the grid the click read, and the
\* clicked tile keeps x, y, isWater and landPrice.
C19_OneTileReplaced ==
  \A c \in Window, tool \in BuildingType :
    Decision(c, tool).changed =>
      LET new == After(c, tool).grid IN
      /\ \A d \in Window \ {c} : new[d] = gridRef[d]
      /\ new[c].x = c[1] /\ new[c].y = c[2]
      /\ new[c].x = gridRef[c].x
      /\ new[c].y = gridRef[c].y
      /\ new[c].isWater = gridRef[c].isWater
      /\ new[c].landPrice = gridRef[c].landPrice

\* a Road was placed on <<13, 10>> of the generated grid: no other tile differs
C19_Witness ==
  /\ clicks = 1
  /\ grid[<<13, 10>>].buildingType = "Road"
  /\ \E rv \in RandomVariances :
       grid = [createInitialGrid(rv) EXCEPT ![<<13, 10>>].buildingType = "Road"]

\* coordinates with x or y outside 0 .. GRID_SIZE - 1
OutOfBounds ==
  OffGrid \cup {<<GRID_SIZE, 10>>, <<14, 0 - 1>>, <<0 - 1, 0 - 1>>,
                <<GRID_SIZE + 3, GRID_SIZE>>, <<0 - 7, 12>>}

\* C20: a click whose x or y lies outside 0 .. 24 changes neither the grid,
\* money, population, day nor the feed, whatever the tool.
C20_OutOfBoundsIgnored ==
  \A c \in OutOfBounds, tool \in BuildingType :
    /\ ~Decision(c, tool).changed
    /\ After(c, tool) = [grid |-> grid, stats |-> stats, newsFeed |-> newsFeed]

\* one click has been handled in the started game and nothing has changed
C20_Witness ==
  /\ gameStarted
  /\ clicks = 1
  /\ newsFeed = LateFeed
  /\ stats = [money |-> 100, population |-> 0, day |-> 1]
  /\ \E rv \in RandomVariances : grid = createInitialGrid(rv)

\* the tiles of the whole grid that are owned
OwnedTiles(g) ==
  {c \in (0 .. GRID_SIZE - 1) \X (0 .. GRID_SIZE - 1) : OwnedAt(g, c[1], c[2])}

\* C21: until the game is started no click changes anything, neither timer
\* fires, timeOfDay is 0 and the feed is empty; money is 50000, population
\* 0, day 1, no tile holds a building, and the owned tiles are exactly the
\* 25 tiles within 2 of the grid centre in x and in y.
C21_NothingBeforeStart ==
  ~gameStarted =>
    /\ \A c \in Window \cup OutOfBounds, tool \in BuildingType :
         After(c, tool) = [grid |-> grid, stats |-> stats, newsFeed |-> newsFeed]
    /\ ~ENABLED QuietTick
    /\ ~ENABLED NewsTick
    /\ ~ENABLED DayTimer
    /\ timeOfDay = 0
    /\ tickCounter = 0
    /\ newsFeed = <<>>
    /\ stats = [money |-> 50000, population |-> 0, day |-> 1]
    /\ \A c \in Window : grid[c].buildingType = "None" /\ ~grid[c].isRail
    /\ Cardinality(OwnedTiles(grid)) = 25
    /\ OwnedTiles(grid) = {c \in (0 .. 24) \X (0 .. 24) :
                             Abs(c[1] - 12) <= 2 /\ Abs(c[2] - 12) <= 2}

\* two clicks were handled before the start
C21_Witness ==
  /\ ~gameStarted
  /\ clicks = 2

\* C27 as claimed: timeOfDay stays in [0, 1) and is back at its starting
\* value 0 after 200 firings of the 200 ms timer.
C27_CycleOf200Firings ==
  /\ timeOfDay \in 0 .. CycleSteps - 1
  /\ firings = 200 => timeOfDay = 0

\* C27 as amended: each firing of the 200 ms timer advances timeOfDay by
\* 0.001 modulo 1 and nothing else does; timeOfDay stays in [0, 1) and is
\* back at 0 exactly every 1000 firings (200 seconds); the firing changes
\* neither the day nor the tick counter.
C27_CycleOf1000Firings ==
  /\ [](/\ timeOfDay \in 0 .. 999
        /\ timeOfDay = 0 <=> firings % 1000 = 0)
  /\ [][/\ firings' = firings + 1 =>
             /\ timeOfDay' = (timeOfDay + 1) % 1000
             /\ stats' = stats
             /\ tickCounter' = tickCounter
        /\ firings' = firings => timeOfDay' = timeOfDay]_vars

\* the clock is back at 0 after its 1000th firing; the day has changed once
C27_Witness ==
  /\ firings = 1000
  /\ timeOfDay = 0
  /\ stats.day = 2

\* an owned tile touches c at a corner
DiagNeighbourOwned(c) ==
  \E d \in {<<c[1] - 1, c[2] - 1>>, <<c[1] + 1, c[2] - 1>>,
             <<c[1] - 1, c[2] + 1>>, <<c[1] + 1, c[2] + 1>>} :
    /\ d[1] \in 0 .. GRID_SIZE - 1
    /\ d[2] \in 0 .. GRID_SIZE - 1
    /\ OwnedAt(gridRef, d[1], d[2])

\* the click was turned down: one message more, grid and stats as before
TurnedDown(c, tool, text, type) ==
  After(c, tool) = [grid     |-> grid,
                    stats    |-> stats,
                    newsFeed |-> addNewsItem(newsFeed, NewsItem(text, type))]

\* C30: the Land tool on an unowned dry tile with no owned orthogonal
\* neighbour is turned down with the adjacency message whatever the money
\* and whatever lies diagonally; with an owned orthogonal neighbour and
\* money below the plot's price it is turned down with the funds message.
C30_AdjacencyBeforeFunds ==
  gameStarted =>
    \A c \in Window :
      (~gridRef[c].owned /\ ~gridRef[c].isWater) =>
        /\ ~OrthNeighbourOwned(c) =>
             TurnedDown(c, "Land", "Can only buy land adjacent to owned territory.",
                        "neutral")
        /\ (OrthNeighbourOwned(c) /\ statsRef.money < landCost(gridRef[c])) =>
             TurnedDown(c, "Land", "Insufficient funds. Plot costs.", "negative")

\* a plot with an owned diagonal neighbour only was asked for with enough
\* money and refused for adjacency
C30_Witness ==
  /\ InFeed("Can only buy land adjacent to owned territory.")
  /\ ~gridRef[<<15, 9>>].owned
  /\ DiagNeighbourOwned(<<15, 9>>)
  /\ ~OrthNeighbourOwned(<<15, 9>>)
  /\ stats.money >= landCost(gridRef[<<15, 9>>])
  /\ clicks >= 1

\* C29: a news call that fails or returns nothing leaves the feed, the grid
\* and the stats as they are, shows the player nothing, and leaves the tick
\* loop running: the tick counter is untouched and the next tick can fire
\* and update the stats as after any other tick.
C29_FailedNewsIsNoNews ==
  /\ [][(NewsFails \/ NewsNothing) =>
          /\ newsFeed' = newsFeed
          /\ grid' = grid
          /\ stats' = stats
          /\ gameStarted' = gameStarted
          /\ tickCounter' = tickCounter]_vars
  /\ []((unhandledRejection /\ gameStarted /\ TicksLeft) =>
          ENABLED (/\ QuietTick
                   /\ stats'.money = stats.money + SumByBuilding("incomeGen")
                   /\ tickCounter' = tickCounter + 1))

\* a call failed, later ticks fired and the third of them made a call that
\* is still pending; the feed holds the welcome message only
C29_Witness ==
  /\ unhandledRejection
  /\ pendingNews = 3
  /\ tickCounter = 4
  /\ Len(newsFeed) = 1

\* the road graph is two tiles next to each other along x or along y
TwoAdjacentRoads ==
  LET roads == roadTilesOf(grid) IN
  /\ Cardinality(roads) = 2
  /\ \A a \in roads : roadNeighbors(roads, a) = roads \ {a}

\* C23: on a road graph of exactly two orthogonally adjacent tiles every
\* car's current and target tiles are among the two and its progress stays
\* within [0, 1], so that its interpolated position is on the segment
\* between them; on every graph the frame callback can run whenever it is
\* past its guard, also for a car on a tile without road neighbour, and
\* leaves every car on tiles of the graph.
C23_ConfinedToSegment ==
  LET roads == roadTilesOf(grid) IN
  /\ TwoAdjacentRoads =>
        \A i \in 1 .. Len(carsState) :
          /\ carsState[i].cur \in roads
          /\ carsState[i].tar \in roads
          /\ carsState[i].progress \in 0 .. 100
          /\ carsState[i].progress = 100 => carsState[i].cur = carsState[i].tar
  /\ \A i \in 1 .. Len(carsState) :
        carsState[i].cur \in roads /\ carsState[i].tar \in roads
  /\ (carsState # <<>> /\ Cardinality(roads) >= 2) => ENABLED CarsFrame

\* two adjacent road tiles: the first car is about to arrive back on
\* <<13,10>> from <<14,10>>, the second is the faster one
C23_Witness ==
  /\ TwoAdjacentRoads
  /\ Len(carsState) = 2
  /\ carsState[1] = [cur |-> <<14, 10>>, tar |-> <<13, 10>>, progress |-> 99, speed |-> 1]
  /\ carsState[2].speed = 2
  /\ carsState[2].cur # carsState[2].tar

\* the Manhattan distance of two tiles
Manhattan(a, b) == Abs(a[1] - b[1]) + Abs(a[2] - b[2])

\* C24: in a frame in which a car's progress reaches 1 the car snaps to its
\* target with progress 0; if that tile has road neighbours the new target
\* is a road tile at Manhattan distance 1, and never the tile just left
\* when there are two or more of them; if it has none the car's current and
\* target tiles both become one road tile.
C24_NextTarget ==
  [][\A i \in 1 .. Len(carsState) :
       LET roads == roadTilesOf(grid)
           old == carsState[i]
           new == carsState'[i]
           arrival == old.tar
       IN  (Len(carsState') = Len(carsState) /\ old.progress + old.speed >= 100) =>
             /\ new.progress = 0
             /\ roadNeighbors(roads, arrival) # {} =>
                   /\ new.cur = arrival
                   /\ new.tar \in roads
                   /\ Manhattan(new.cur, new.tar) = 1
             /\ Cardinality(roadNeighbors(roads, arrival)) >= 2 => new.tar # old.cur
             /\ roadNeighbors(roads, arrival) = {} =>
                   /\ new.cur \in roads
                   /\ new.tar = new.cur]_carsState

\* on the line of three the first car is past the corner <<14,10>>, which
\* has two road neighbours, and drives on to <<14,9>>, while the second
\* drives from the corner to <<13,10>>
C24_Witness ==
  /\ roadTilesOf(grid) = {<<13, 10>>, <<14, 10>>, <<14, 9>>}
  /\ carsState # <<>>
  /\ carsState[1].cur = <<14, 10>>
  /\ carsState[1].tar = <<14, 9>>
  /\ carsState[1].progress \in 1 .. 99
  /\ carsState[2].cur = <<14, 10>>
  /\ carsState[2].tar = <<13, 10>>

\* a car was moved to another tile for want of a road neighbour: it sits on
\* the Bridge, away from the tile it was seeded on, with nowhere to go
C24_TeleportWitness ==
  /\ carsState # <<>>
  /\ roadNeighbors(roadTilesOf(grid), <<11, 10>>) = {}
  /\ carsState[1] = [cur |-> <<11, 10>>, tar |-> <<11, 10>>, progress |-> 50, speed |-> 1]
  /\ carsState[2].cur = <<13, 10>>
  /\ carsState[2].tar = <<14, 10>>

\* the triangle wave over [0, 2 * (count - 1)], in units of 1 / ProgressUnit
TriangleWave(count, progress) ==
  LET period == 2 * (count - 1) * ProgressUnit
      raw == progress % period
  IN  IF raw > (count - 1) * ProgressUnit THEN period - raw ELSE raw

\* C25: the train's position is the triangle wave over [0, 2 * (count - 1)]
\* of its progress, taken along the sorted rail list: the point at that
\* distance from the first tile, one tile per unit of progress on every
\* segment in both directions; pi is added to the heading exactly on the
\* way back.
C25_TriangleWave ==
  LET rails == railTiles(grid)
      count == Len(rails)
  IN  (count >= 2 /\ trainProgress > 0 /\ ~trainFrameThrows(count, trainProgress)) =>
        LET wave == TriangleWave(count, trainProgress)
            i == Min(wave \div ProgressUnit, count - 2)
            t == wave - i * ProgressUnit
            from == rails[i + 1]
            to == rails[i + 2]
            pose == trainPose(rails, trainProgress)
        IN  /\ pose.x = from[1] * ProgressUnit + (to[1] - from[1]) * t
            /\ pose.y = from[2] * ProgressUnit + (to[2] - from[2]) * t
            /\ pose.reversed <=>
                  trainProgress % (2 * (count - 1) * ProgressUnit) > (count - 1) * ProgressUnit

\* C22 (its safety part): no frame callback raises an error.
C22_NoFrameRaises == ~trainThrew

\* C26: a movement system whose graph holds fewer than 2 tiles draws no
\* agent and its frame callback changes nothing: the cars with fewer than
\* 2 road tiles, the train with fewer than 2 rail tiles, the pedestrians
\* with fewer than 2 walkable tiles.
C26_FewTilesNothingShown ==
  /\ Cardinality(roadTilesOf(grid)) < 2 =>
        carsRendered(grid) = 0 /\ ~ENABLED CarsFrame
  /\ Len(railTiles(grid)) < 2 =>
        trainsRendered(grid) = 0 /\ ~ENABLED TrainFrame
  /\ Cardinality(walkableTilesOf(grid)) < 2 =>
        peopleRendered(stats.population) = 0

\* the Road and Bridge tiles of the grid
RoadOrBridgeTiles == {c \in DOMAIN grid : grid[c].buildingType \in {"Road", "Bridge"}}

C31_LandIsNeverStored ==
  /\ \A c \in Window : grid[c].buildingType # "Land" /\ gridRef[c].buildingType # "Land"
  /\ gameStarted =>
        \A c \in Window :
          [Decision(c, "Land").tile EXCEPT !.owned = gridRef[c].owned] = gridRef[c]

\* the Land tool has bought one plot and sold another
C31_Witness ==
  /\ InFeed("New territory acquired.")
  /\ InFeed("Land sold.")
  /\ clicks = 2
  /\ gridRef = grid

\* C32: a water tile is owned exactly if it was owned when the grid was
\* generated; the Land tool on a water tile, owned or not, is turned down
\* with the waterways message; a water tile carrying a Rail or a Bridge was
\* owned from the start.
C32_WaterOwnershipFixed ==
  /\ \A c \in Window :
        /\ grid[c].isWater = isRiver(c[1], c[2])
        /\ grid[c].isWater => grid[c].owned = isOwnedInitially(c[1], c[2])
        /\ (grid[c].isWater /\ (grid[c].buildingType \in {"Rail", "Bridge"} \/ grid[c].isRail))
             => isOwnedInitially(c[1], c[2])
  /\ gameStarted =>
        \A c \in Window :
          gridRef[c].isWater =>
            TurnedDown(c, "Land", "Cannot purchase protected public waterways.", "neutral")

\* the Land tool was turned down on water and the owned water tile carries
\* a Rail or a Bridge; the unowned water tile next to it is still unowned
C32_Witness ==
  /\ InFeed("Cannot purchase protected public waterways.")
  /\ grid[<<11, 10>>].buildingType \in {"Rail", "Bridge"}
  /\ ~grid[<<11, 9>>].owned
  /\ clicks = 2

\* C33: the treasury is never negative.
C33_MoneyNeverNegative == stats.money >= 0

\* C34: every tile that carries a building is owned, in the grid and in
\* the grid held in the ref; the Land tool on a dry tile that carries a
\* building is turned down and the tile stays owned.
C34_BuildingsStandOnOwnedLand ==
  /\ \A c \in Window :
        /\ grid[c].buildingType # "None" => grid[c].owned
        /\ gridRef[c].buildingType # "None" => gridRef[c].owned
  /\ gameStarted =>
        \A c \in Window :
          (gridRef[c].buildingType # "None" /\ ~gridRef[c].isWater) =>
            TurnedDown(c, "Land", "Must clear building before selling land.", "negative")

\* the sale of a built plot was turned down; the building stands
C34_Witness ==
  /\ InFeed("Must clear building before selling land.")
  /\ \E c \in Window : grid[c].buildingType # "None" /\ grid[c].owned /\ ~grid[c].isWater
  /\ clicks = 2

\* C35: the bulldozer on a water tile is turned down by the terrain rule,
\* and a water tile that carries a Rail or a Bridge carries a Rail or a
\* Bridge ever after.
C35_WaterBuildingsStay ==
  /\ [](gameStarted =>
          \A c \in Window :
            gridRef[c].isWater =>
              (gridRef[c].owned =>
                 TurnedDown(c, "None", "Cannot build on water. Build a bridge!", "negative")))
  /\ [][\A c \in Window :
          (grid[c].isWater /\ grid[c].buildingType \in {"Rail", "Bridge"}) =>
            grid'[c].buildingType \in {"Rail", "Bridge"}]_vars

\* C36: Rail or Bridge on an owned water tile that already carries a
\* building, the same one included, is placed when the money covers its
\* cost: the cost is taken in full and nothing else, the feed gets no
\* message, the building type is overwritten and the rail flag is set by a
\* Rail and kept by a Bridge.
C36_RebuildOnWater ==
  gameStarted =>
    \A c \in Window, tool \in {"Rail", "Bridge"} :
      (/\ gridRef[c].isWater
       /\ gridRef[c].owned
       /\ gridRef[c].buildingType # "None"
       /\ statsRef.money >= BUILDINGS[tool].cost) =>
        After(c, tool) =
          [grid     |-> [gridRef EXCEPT ![c] =
                           [gridRef[c] EXCEPT !.buildingType = tool,
                                              !.isRail = (tool = "Rail" \/ @)]],
           stats    |-> [stats EXCEPT !.money = @ - BUILDINGS[tool].cost],
           newsFeed |-> newsFeed]

\* a Bridge was placed over a Rail on the owned water tile: the rail flag
\* is still set and both costs, 150 and 1000, were paid
C36_Witness ==
  /\ grid[<<11, 10>>].buildingType = "Bridge"
  /\ grid[<<11, 10>>].isRail
  /\ stats.money = INITIAL_MONEY - 1150
  /\ clicks = 2

\* C37: every tick adds the income it computed to the money of the latest
\* stats and every click adds its credit or takes its debit from the money
\* of the latest stats, whatever the stats ref holds; no other step changes
\* the money.  Money is therefore the initial money plus every income and
\* credit minus every debit.
C37_MoneyUpdatesAddUp ==
  [][/\ TickStep => stats'.money = stats.money + SumByBuilding("incomeGen")
     /\ \A c \in ClickCoords, tool \in BuildingType :
          ClickAt(c, tool) => stats'.money = stats.money + Decision(c, tool).delta
     /\ (~TickStep /\ clicks' = clicks) => stats'.money = stats.money]_vars

\* a Commercial was placed (200), a tick brought its income (15) and a Road
\* was placed (10) by a click that read the stats ref of before the tick
C37_Witness ==
  /\ stats.money = INITIAL_MONEY - 200 + 15 - 10
  /\ statsRef.money = INITIAL_MONEY - 200
  /\ tickCounter = 1
  /\ clicks = 2

\* C38: after every frame on a rail list of at least 2 tiles the current
\* and the next index are within the list.
C38_TrainIndicesInRange ==
  LET count == Len(railTiles(grid))
      idx == trainIdx(count, trainProgress)
  IN  (count >= 2 /\ trainProgress > 0) =>
        /\ idx \in 0 .. count - 1
        /\ Min(idx + 1, count - 1) \in 0 .. count - 1

\* C39: a tick leaves the grid, the grid ref, the clock and the feed as
\* they are; a click leaves population, day, clock and tick counter as they
\* are and changes at most one tile of the grid.
C39_TicksAndClicksKeepApart ==
  [][/\ TickStep =>
          /\ grid' = grid
          /\ gridRef' = gridRef
          /\ timeOfDay' = timeOfDay
          /\ newsFeed' = newsFeed
          /\ clicks' = clicks
     /\ clicks' = clicks + 1 =>
          /\ stats'.population = stats.population
          /\ stats'.day = stats.day
          /\ timeOfDay' = timeOfDay
          /\ tickCounter' = tickCounter
          /\ \E c \in Window : \A d \in Window \ {c} : grid'[d] = grid[d]]_vars

=============================================================================
